---- MODULE Spec2Model ----
(***************************************************************************)
(* Inference provider supervision and dispatch of live-vision-analyzer.    *)
(*                                                                         *)
(* Two specifications share the module's variables:                        *)
(*   Spec          the local server supervisor (OllamaManager) and the     *)
(*                 tasks that use it: the background startup task of       *)
(*                 run(), the start_ollama command and the                 *)
(*                 check_ollama_status command;                            *)
(*   SpecDispatch  the provider calls (analyze_with_llava, the four        *)
(*                 MoondreamManager operations) and the two-provider       *)
(*                 comparison analyze_ab_test.                             *)
(*                                                                         *)
(* A task's pc names the await point (or the synchronous stretch between   *)
(* two await points) it stands at.  The backends, the file system and the  *)
(* operating system are the environment: every answer they can give is an  *)
(* input drawn with \E.                                                    *)
(*                                                                         *)
(* reqwest's client construction is taken to succeed: the same builder has *)
(* succeeded in MoondreamManager::new before any command can run (its      *)
(* failure there aborts the application at start-up).                      *)
(***************************************************************************)
EXTENDS Integers, Sequences, FiniteSets, TLC

VARIABLES
    \* ---- build ----
    edition,        \* the crate's Rust edition: decides when the temporaries of an
                    \* `if let` scrutinee (the MutexGuard of run()) are dropped
    \* ---- supervisor (ollama_manager.rs) and the tasks that use it ----
    pc,             \* task -> where it stands
    req,            \* task -> the HTTP request it awaits (NoReq when none)
    loc,            \* task -> locals of the call in progress
    lockHolder,     \* owner of AppState.ollama's tokio Mutex (NoTask when free)
    process,        \* OllamaManager.process: 0 is None, n > 0 is Some(child n)
    spawned,        \* number of children spawned so far
    liveChildren,   \* children spawned and neither killed nor exited
    binFile,        \* the file at data_dir/bin/ollama
    manifest,       \* whether the manifest path of llava:7b exists
    dropped,        \* the OllamaManager has been dropped
    lastStatus,     \* the OllamaStatus the last status query returned
    lastResult,     \* the Result the last start_ollama command returned
    \* ---- history (read by properties only) ----
    spawnsSinceStop,\* spawns since construction or the last stop()
    spawnWhileHeld, \* some spawn step ran while process was Some
    csSeen,         \* what the status query in progress saw of the lock when it began
    csAnswer,       \* how the catalog request of the status query just returned was
                    \* answered
    killed,         \* children a stop() has sent a kill
    stopSaw,        \* what the last stop() found: no handle, a live child, an exited one
    \* ---- dispatch (lib.rs, moondream_manager.rs) ----
    now,            \* the monotonic clock (Instant::now()), in ticks
    mdLock,         \* owner of AppState.moondream's tokio Mutex (NoTask when free)
    cpc,            \* call -> where it stands
    creq,           \* call -> the HTTP request it awaits
    cloc,           \* call -> locals of the call: operation, timeout, start instant,
                    \*         and the answers its own requests received
    cout,           \* call -> what the call returned
    abPc,           \* analyze_ab_test: idle, joining, done
    abStart,        \* analyze_ab_test's start_time
    report,         \* what analyze_ab_test returned
    \* ---- the reply text of a query (moondream_manager.rs) ----
    text,           \* the answer text handed to try_parse_structured
    parsed,         \* whether try_parse_structured was called, and what it returned
    \* ---- the trigger detector (yolo_detector.rs) ----
    model_loaded,   \* YoloDetector.model_loaded
    yoloPc,         \* idle, or initializing while initialize() sleeps
    initDone,       \* history: initialize() has completed
    detectLog,      \* history: the last detect(): whether the detector was ready, whether
                    \* the frame was decoded, and what was returned
    framesSeen      \* history: the number of detect() calls so far

supVars == <<pc, req, loc, lockHolder, process, spawned, liveChildren, binFile,
             manifest, dropped, lastStatus, lastResult,
             spawnsSinceStop, spawnWhileHeld, csSeen, csAnswer, killed, stopSaw>>

parseVars == <<text, parsed>>
yoloVars == <<model_loaded, yoloPc, initDone, detectLog, framesSeen>>
unitVars == <<parseVars, yoloVars>>
callVars == <<now, mdLock, cpc, creq, cloc, cout, abPc, abStart, report>>

\* all that the supervisor's actions leave alone
dispVars == <<callVars, unitVars>>

vars == <<edition, supVars, dispVars>>

----------------------------------------------------------------------------
(* Option<T>: None is the empty sequence, Some(x) the one-element sequence. *)
None == <<>>
Some(x) == <<x>>
IsSome(o) == o # None

(* Bounds of the model. *)
\* children the model lets the supervisor spawn
MaxSpawn == 2
\* model names in one catalog answer
MaxCatalog == 1

(* Tasks. *)
NoTask == "none"
SupTasks == {"bg", "cmd"}
StatusTasks == {"st"}
Tasks == SupTasks \cup StatusTasks

Editions == {2021, 2024}

----------------------------------------------------------------------------
(* HTTP requests.  A request is what the code built: its endpoint and the   *)
(* timeout of the client that sends it.  silent is the environment's        *)
(* choice that the backend never answers this request.                      *)
NoReq == [url |-> "none", timeout |-> None, silent |-> FALSE]
Request(url, timeout, silent) == [url |-> url, timeout |-> timeout, silent |-> silent]

\* Client::new() and reqwest::get(): reqwest's default client has no timeout.
ProbeTimeout == None
FetchTimeout == None
PullTimeout == None
PreloadTimeout == None
\* check_status: Client::builder().timeout(Duration::from_secs(2))
StatusTimeoutMs == 2000
StatusTimeout == Some(StatusTimeoutMs)

(* The ways send().await can settle: an answer with a success status, an    *)
(* answer with another status, an error of the transport, or the client's   *)
(* timeout, which exists only when the client has one.  A silent backend    *)
(* gives no answer.                                                         *)
Settles(r) ==
    (IF r.silent THEN {} ELSE {"success", "status_err", "conn_err"})
    \cup (IF IsSome(r.timeout) THEN {"timeout"} ELSE {})

\* Ok(response) if response.status().is_success()
IsSuccess(s) == s = "success"
\* Err(e) of send().await
IsSendErr(s) == s \in {"conn_err", "timeout"}

----------------------------------------------------------------------------
(* OllamaStatus and check_status's classification. *)
ModelNames == {"llava:7b", "llava:13b", "llama3.2-vision", "mistral"}
\* the catalog bodies: the set of model names the body lists
CatalogBodies == {b \in SUBSET ModelNames : Cardinality(b) <= MaxCatalog}

\* the names that contain "llava:"
LlavaFamily == {"llava:7b", "llava:13b"}

\* a check for the exact model name only
HasExactMarker(body) == "llava:7b" \in body

\* body.contains("llava:7b") || body.contains("llava:") || body.contains("llama3.2-vision")
HasMarker(body) ==
    \/ "llava:7b" \in body
    \/ \E m \in body : m \in LlavaFamily
    \/ "llama3.2-vision" \in body

OllamaStatus(running, model_ready, error) ==
    [running |-> running, model_ready |-> model_ready, error |-> error]

NoStatus == [running |-> FALSE, model_ready |-> FALSE, error |-> Some("none yet")]

(* An answer to the catalog request: how send().await settled, the body    *)
(* the server sent with its response (a transport error has none), and     *)
(* whether response.text().await could read it.                            *)
NoAnswer == [status |-> "none", body |-> {}, readable |-> TRUE]
Answer(s, body, readable) == [status |-> s, body |-> body, readable |-> readable]

\* the answers the catalog request can get when it settles with s: a response of any
\* status has a body; only the body of a success response is read
CatalogAnswers(s) ==
    IF IsSuccess(s)
      THEN {Answer(s, b, TRUE) : b \in CatalogBodies} \cup {Answer(s, {}, FALSE)}
    ELSE IF IsSendErr(s) THEN {Answer(s, {}, TRUE)}
    ELSE {Answer(s, b, TRUE) : b \in CatalogBodies}

\* response.text().await.unwrap_or_default(): the empty text when the body cannot be read
TextRead(a) == IF a.readable THEN a.body ELSE {}

\* a classification that takes every settled request for a running server
ClassifyAlwaysRunning(s, body) == OllamaStatus(TRUE, HasMarker(body), None)

\* the match of check_status over the settled request
ClassifyStatus(s, body) ==
    IF IsSuccess(s) THEN OllamaStatus(TRUE, HasMarker(body), None)
    ELSE IF IsSendErr(s) THEN OllamaStatus(FALSE, FALSE, Some("Ollama server not responding"))
    ELSE OllamaStatus(FALSE, FALSE, Some("Ollama server returned"))

----------------------------------------------------------------------------
(* Locals of a call. *)
\*   ret          what start() or pull_model() returned
\*   probe        how the liveness probe of this start() was answered
\*   heldAtEntry  whether a handle was held when this start() was entered
\*   spawnedAt    the number of children spawned when this start() was entered
\*   body         the body the binary fetch received
\*   failed       the step of start() that returned the error
\*   pullAnswer   how the pull request of this pull_model() settled
\*   processAt    the handle when this pull_model() was entered
\*   sent         the endpoints this call has sent a request to, in order
\*   childAlive   whether, when start() returned, the handle held a child still alive
NoLoc == [ret |-> "none", probe |-> "none", heldAtEntry |-> FALSE, spawnedAt |-> 0,
          body |-> "none", failed |-> "none", pullAnswer |-> "none", processAt |-> 0,
          sent |-> <<>>, childAlive |-> FALSE]

InitSup ==
    /\ pc = [t \in Tasks |-> IF t = "bg" THEN "lock" ELSE "idle"]
    /\ req = [t \in Tasks |-> NoReq]
    /\ loc = [t \in Tasks |-> NoLoc]
    /\ lockHolder = NoTask
    /\ process = 0
    /\ spawned = 0
    /\ liveChildren = {}
    /\ binFile \in {"absent", "good"}
    /\ manifest \in BOOLEAN
    /\ dropped = FALSE
    /\ lastStatus = NoStatus
    /\ lastResult = "none"
    /\ spawnsSinceStop = 0
    /\ spawnWhileHeld = FALSE
    /\ csSeen = [holder |-> NoTask, stuck |-> FALSE]
    /\ csAnswer = NoAnswer
    /\ killed = {}
    /\ stopSaw = "none"

----------------------------------------------------------------------------
(* Helpers on the task-indexed variables. *)
Goto(t, where) == pc' = [pc EXCEPT ![t] = where]
Send(t, r) == req' = [req EXCEPT ![t] = r]
ClearReq(t) == req' = [req EXCEPT ![t] = NoReq]
\* start() or pull_model() returns r to its caller
Return(t, where, r) ==
    /\ Goto(t, where)
    /\ loc' = [loc EXCEPT ![t].ret = r]

\* self.process is Some(child) and that child has neither exited nor been killed
ChildAlive == process # 0 /\ process \in liveChildren

\* a step of start() whose error is dropped: start() goes on to return Ok
FailSwallowed(t, step) ==
    /\ Goto(t, "start_ret")
    /\ loc' = [loc EXCEPT ![t].ret = "Ok", ![t].failed = step]

\* `.map_err(..)?` in start() and download_ollama(): the step's error is returned
Fail(t, step) ==
    /\ Goto(t, "start_ret")
    /\ loc' = [loc EXCEPT ![t].ret = "Err", ![t].failed = step]

(* The tokio Mutex around the OllamaManager: lock().await completes only    *)
(* while no guard exists.                                                   *)
LockFree == lockHolder = NoTask
Release(t) == lockHolder' = IF lockHolder = t THEN NoTask ELSE lockHolder

histVars == <<spawnsSinceStop, spawnWhileHeld, csSeen, csAnswer, killed, stopSaw>>
\* the history a status query leaves alone
spawnHist == <<spawnsSinceStop, spawnWhileHeld, killed, stopSaw>>
fsVars == <<binFile, manifest>>
procVars == <<process, spawned, liveChildren>>
outVars == <<lastStatus, lastResult>>

----------------------------------------------------------------------------
(* start_ollama: the command is invoked; lock().await follows. *)
InvokeStartOllama ==
    /\ ~dropped
    /\ pc["cmd"] = "idle"
    /\ Goto("cmd", "lock")
    /\ loc' = [loc EXCEPT !["cmd"] = NoLoc]
    /\ UNCHANGED <<edition, dispVars, req, lockHolder, procVars, fsVars, dropped, outVars, histVars>>

\* a mutex that excludes nobody
AcquireNoExclusion(t) ==
    /\ pc[t] = "lock"
    /\ lockHolder' = t
    /\ Goto(t, "start_entry")
    /\ UNCHANGED <<edition, dispVars, req, loc, procVars, fsVars, dropped, outVars, histVars>>

\* state.ollama.lock().await, before start()
Acquire(t) ==
    /\ pc[t] = "lock"
    /\ LockFree
    /\ lockHolder' = t
    /\ Goto(t, "start_entry")
    /\ UNCHANGED <<edition, dispVars, req, loc, procVars, fsVars, dropped, outVars, histVars>>

----------------------------------------------------------------------------
(* OllamaManager::start *)

\* a start() that never looks at the handle
HandleNeverHeld == FALSE

\* self.process.is_some()
HandleHeld == process # 0

\* start(): the early return on a held handle, else the liveness probe is sent
StartEntry(t) ==
    /\ pc[t] = "start_entry"
    /\ IF HandleHeld
         THEN /\ Goto(t, "start_ret")
              /\ loc' = [loc EXCEPT ![t].ret = "Ok",
                                    ![t].heldAtEntry = (process # 0),
                                    ![t].spawnedAt = spawned,
                                    ![t].childAlive = ChildAlive]
              /\ UNCHANGED req
         ELSE /\ \E silent \in BOOLEAN :
                    Send(t, Request("/api/version", ProbeTimeout, silent))
              /\ Goto(t, "probe_wait")
              /\ loc' = [loc EXCEPT ![t].heldAtEntry = (process # 0),
                                    ![t].spawnedAt = spawned,
                                    ![t].sent = Append(@, "/api/version")]
    /\ UNCHANGED <<edition, dispVars, lockHolder, procVars, fsVars, dropped, outVars, histVars>>

\* a probe whose success is not taken as a running server
ProbeNeverRunning(s) == FALSE

\* Ok(response) if response.status().is_success() => already running
ProbeSaysRunning(s) == IsSuccess(s)

\* the probe settles: success returns Ok at once, anything else goes on to download_ollama
ProbeSettle(t) ==
    /\ pc[t] = "probe_wait"
    /\ \E s \in Settles(req[t]) :
          /\ IF ProbeSaysRunning(s)
               THEN Goto(t, "start_ret")
               ELSE Goto(t, "download")
          /\ loc' = [loc EXCEPT
                        ![t].probe = IF IsSuccess(s) THEN "success" ELSE "failed",
                        ![t].ret = IF ProbeSaysRunning(s) THEN "Ok" ELSE @]
    /\ ClearReq(t)
    /\ UNCHANGED <<edition, dispVars, lockHolder, procVars, fsVars, dropped, outVars, histVars>>

\* download_ollama: create the bin directory, return the path if the file exists,
\* else send the GET of the release URL
DownloadEntry(t) ==
    /\ pc[t] = "download"
    /\ \E dirOk \in BOOLEAN :
          IF ~dirOk
            THEN Fail(t, "download") /\ UNCHANGED req
            ELSE IF binFile # "absent"
              THEN Goto(t, "models_dir") /\ UNCHANGED <<req, loc>>
              ELSE /\ \E silent \in BOOLEAN :
                         Send(t, Request("release", FetchTimeout, silent))
                   /\ Goto(t, "fetch_wait")
                   /\ loc' = [loc EXCEPT ![t].sent = Append(@, "release")]
    /\ UNCHANGED <<edition, dispVars, lockHolder, procVars, fsVars, dropped, outVars, histVars>>

\* reqwest::get(url).await: an Err returns; any response, whatever its status, goes on
\* to read its body (the same request: the wait for it starts afresh)
FetchSettle(t) ==
    /\ pc[t] = "fetch_wait"
    /\ \E s \in Settles(req[t]) :
          IF IsSendErr(s)
            THEN Fail(t, "download") /\ ClearReq(t)
            ELSE /\ Goto(t, "body_wait")
                 /\ loc' = [loc EXCEPT ![t].body =
                               IF IsSuccess(s) THEN "binary" ELSE "errorpage"]
                 /\ \E silent \in BOOLEAN :
                       Send(t, Request("release", FetchTimeout, silent))
    /\ UNCHANGED <<edition, dispVars, lockHolder, procVars, fsVars, dropped, outVars, histVars>>

\* the file left at the binary path by File::create, write_all and set_permissions,
\* the first failing step returning the error
WrittenFile(fs, body) ==
    CASE fs = "create_fail" -> "absent"
      [] fs = "write_fail" -> "partial"
      [] fs = "perm_fail" -> "noexec"
      [] OTHER -> IF body = "binary" THEN "good" ELSE "errorpage"

\* response.bytes().await, then the file is written and made executable
BodySettle(t) ==
    /\ pc[t] = "body_wait"
    /\ ~req[t].silent \/ IsSome(req[t].timeout)
    /\ \E bytesOk \in (IF req[t].silent THEN {FALSE} ELSE BOOLEAN) :
          IF ~bytesOk
            THEN Fail(t, "download") /\ UNCHANGED binFile
            ELSE \E fs \in {"create_fail", "write_fail", "perm_fail", "ok"} :
                    /\ binFile' = WrittenFile(fs, loc[t].body)
                    /\ IF fs = "ok"
                         THEN Goto(t, "models_dir") /\ UNCHANGED loc
                         ELSE Fail(t, IF fs = "perm_fail" THEN "permissions"
                                      ELSE "download")
    /\ ClearReq(t)
    /\ UNCHANGED <<edition, dispVars, lockHolder, procVars, manifest, dropped, outVars, histVars>>

\* create the models directory, then cmd.spawn() and self.process = Some(child)
SpawnStep(t) ==
    /\ pc[t] = "models_dir"
    /\ \E dirOk \in BOOLEAN, spawnOk \in BOOLEAN :
          IF dirOk /\ spawnOk /\ spawned < MaxSpawn
            THEN /\ spawned' = spawned + 1
                 /\ process' = spawned + 1
                 /\ liveChildren' = liveChildren \cup {spawned + 1}
                 /\ spawnsSinceStop' = spawnsSinceStop + 1
                 /\ spawnWhileHeld' = (spawnWhileHeld \/ process # 0)
                 /\ Goto(t, "settle_sleep")
                 /\ UNCHANGED loc
            ELSE /\ ~(dirOk /\ spawnOk)
                 /\ Fail(t, IF ~dirOk THEN "models_dir" ELSE "spawn")
                 /\ UNCHANGED <<procVars, spawnsSinceStop, spawnWhileHeld>>
    /\ UNCHANGED <<edition, dispVars, req, lockHolder, fsVars, dropped, outVars, csSeen,
                   csAnswer, killed, stopSaw>>

\* tokio::time::sleep(2 s), then Ok(())
SettleSleep(t) ==
    /\ pc[t] = "settle_sleep"
    /\ Goto(t, "start_ret")
    /\ loc' = [loc EXCEPT ![t].ret = "Ok", ![t].childAlive = ChildAlive]
    /\ UNCHANGED <<edition, dispVars, req, lockHolder, procVars, fsVars, dropped, outVars, histVars>>

----------------------------------------------------------------------------
(* OllamaManager::pull_model *)

\* a pull that takes any answer for success
PullOutcomeLenient(s) == "Ok"

\* .send().await.map_err(..)?; if !response.status().is_success() { return Err(..) }
PullOutcome(s) == IF IsSuccess(s) THEN "Ok" ELSE "Err"

\* the manifest check, else the POST /api/pull is sent
PullEntry(t) ==
    /\ pc[t] = "pull_entry"
    /\ IF manifest
         THEN /\ Goto(t, "pull_ret")
              /\ loc' = [loc EXCEPT ![t].ret = "Ok", ![t].processAt = process]
              /\ UNCHANGED req
         ELSE /\ \E silent \in BOOLEAN :
                    Send(t, Request("/api/pull", PullTimeout, silent))
              /\ Goto(t, "pull_wait")
              /\ loc' = [loc EXCEPT ![t].processAt = process,
                                    ![t].sent = Append(@, "/api/pull")]
    /\ UNCHANGED <<edition, dispVars, lockHolder, procVars, fsVars, dropped, outVars, histVars>>

\* a pull that sends its request once more when the first one failed
PullSettleRetrying(t) ==
    /\ pc[t] = "pull_wait"
    /\ \E s \in Settles(req[t]) :
          IF ~IsSuccess(s) /\ Len(loc[t].sent) < 2
            THEN /\ loc' = [loc EXCEPT ![t].sent = Append(@, "/api/pull")]
                 /\ UNCHANGED <<pc, req, manifest>>
            ELSE /\ Goto(t, "pull_ret")
                 /\ loc' = [loc EXCEPT ![t].ret = PullOutcome(s), ![t].pullAnswer = s]
                 /\ ClearReq(t)
                 /\ IF IsSuccess(s)
                      THEN \E m \in {manifest, TRUE} : manifest' = m
                      ELSE UNCHANGED manifest
    /\ UNCHANGED <<edition, dispVars, lockHolder, procVars, binFile, dropped, outVars, histVars>>

\* the pull settles: Err on a transport error or a non-success status, else Ok.
\* The server that answered with success may or may not have written the manifest
\* under this supervisor's models directory.
PullSettle(t) ==
    /\ pc[t] = "pull_wait"
    /\ \E s \in Settles(req[t]) :
          /\ Goto(t, "pull_ret")
          /\ loc' = [loc EXCEPT ![t].ret = PullOutcome(s), ![t].pullAnswer = s]
          /\ IF IsSuccess(s)
               THEN \E m \in {manifest, TRUE} : manifest' = m
               ELSE UNCHANGED manifest
    /\ ClearReq(t)
    /\ UNCHANGED <<edition, dispVars, lockHolder, procVars, binFile, dropped, outVars, histVars>>

----------------------------------------------------------------------------
(* start_ollama: `ollama.start().await?`, `ollama.pull_model(..).await?`.   *)
(* The guard is a local of the command: it is dropped when the command      *)
(* returns, on the `?` paths too.                                           *)
CmdStartRet ==
    /\ pc["cmd"] = "start_ret"
    /\ IF loc["cmd"].ret = "Err"
         THEN /\ lastResult' = "Err"
              /\ Release("cmd")
              /\ Goto("cmd", "idle")
         ELSE /\ Goto("cmd", "pull_entry")
              /\ UNCHANGED <<lastResult, lockHolder>>
    /\ loc' = [loc EXCEPT !["cmd"] = NoLoc]
    /\ UNCHANGED <<edition, dispVars, req, procVars, fsVars, dropped, lastStatus, histVars>>

CmdPullRet ==
    /\ pc["cmd"] = "pull_ret"
    /\ lastResult' = loc["cmd"].ret
    /\ Release("cmd")
    /\ Goto("cmd", "idle")
    /\ loc' = [loc EXCEPT !["cmd"] = NoLoc]
    /\ UNCHANGED <<edition, dispVars, req, procVars, fsVars, dropped, lastStatus, histVars>>

(* run()'s background task:                                                 *)
(*   if let Err(e) = state.ollama.lock().await.start().await { .. }         *)
(*   else { if let Err(e) = state.ollama.lock().await.pull_model(..).await  *)
(*          { .. } else { preload } }                                       *)
(* The MutexGuard is a temporary of the scrutinee.  Up to edition 2021 it   *)
(* lives to the end of the whole `if let`, its else block included; from    *)
(* edition 2024 it is dropped before the else block is entered.             *)
GuardLivesInElse == edition < 2024

BgStartRet ==
    /\ pc["bg"] = "start_ret"
    /\ IF loc["bg"].ret = "Err"
         THEN Release("bg") /\ Goto("bg", "done")
         ELSE /\ Goto("bg", "lock2")
              /\ IF GuardLivesInElse THEN UNCHANGED lockHolder ELSE Release("bg")
    /\ loc' = [loc EXCEPT !["bg"] = NoLoc]
    /\ UNCHANGED <<edition, dispVars, req, procVars, fsVars, dropped, outVars, histVars>>

\* the second state.ollama.lock().await, before pull_model
BgLock2 ==
    /\ pc["bg"] = "lock2"
    /\ LockFree
    /\ lockHolder' = "bg"
    /\ Goto("bg", "pull_entry")
    /\ UNCHANGED <<edition, dispVars, req, loc, procVars, fsVars, dropped, outVars, histVars>>

\* pull_model returned: on Ok the preload request to /api/generate is sent
BgPullRet ==
    /\ pc["bg"] = "pull_ret"
    /\ IF loc["bg"].ret = "Err"
         THEN /\ Release("bg") /\ Goto("bg", "done") /\ UNCHANGED req
              /\ loc' = [loc EXCEPT !["bg"] = NoLoc]
         ELSE /\ \E silent \in BOOLEAN :
                    Send("bg", Request("/api/generate", PreloadTimeout, silent))
              /\ Goto("bg", "preload_wait")
              /\ IF GuardLivesInElse THEN UNCHANGED lockHolder ELSE Release("bg")
              /\ loc' = [loc EXCEPT !["bg"] = [NoLoc EXCEPT !.sent = <<"/api/generate">>]]
    /\ UNCHANGED <<edition, dispVars, procVars, fsVars, dropped, outVars, histVars>>

\* the preload request settles; either way the task ends
BgPreloadSettle ==
    /\ pc["bg"] = "preload_wait"
    /\ Settles(req["bg"]) # {}
    /\ ClearReq("bg")
    /\ Release("bg")
    /\ Goto("bg", "done")
    /\ UNCHANGED <<edition, dispVars, loc, procVars, fsVars, dropped, outVars, histVars>>

----------------------------------------------------------------------------
(* check_ollama_status: OllamaManager::check_status() is an associated      *)
(* function without self; the command calls it without touching             *)
(* state.ollama.                                                            *)

\* a task that will hold what it holds for ever: it awaits a request the backend
\* never answers and that has no timeout
Stuck(t) == req[t] # NoReq /\ Settles(req[t]) = {}

\* a status query that takes the supervisor lock first
StatusBeginLocked(t) ==
    /\ ~dropped
    /\ pc[t] = "idle"
    /\ LockFree
    /\ lockHolder' = t
    /\ \E silent \in BOOLEAN : Send(t, Request("/api/tags", StatusTimeout, silent))
    /\ Goto(t, "cs_wait")
    /\ loc' = [loc EXCEPT ![t].sent = Append(@, "/api/tags")]
    /\ csSeen' = [holder |-> lockHolder, stuck |-> FALSE]
    /\ UNCHANGED <<edition, dispVars, procVars, fsVars, dropped, outVars,
                   spawnHist, csAnswer>>

\* check_status: the client with the 2 s timeout sends GET /api/tags
StatusBegin(t) ==
    /\ ~dropped
    /\ pc[t] = "idle"
    /\ \E silent \in BOOLEAN : Send(t, Request("/api/tags", StatusTimeout, silent))
    /\ Goto(t, "cs_wait")
    /\ loc' = [loc EXCEPT ![t].sent = Append(@, "/api/tags")]
    /\ csSeen' = [holder |-> lockHolder,
                  stuck |-> lockHolder \in SupTasks /\ Stuck(lockHolder)]
    /\ UNCHANGED <<edition, dispVars, lockHolder, procVars, fsVars, dropped, outVars,
                   spawnHist, csAnswer>>

\* the request settles and the status is classified and returned
StatusSettle(t) ==
    /\ pc[t] = "cs_wait"
    /\ \E s \in Settles(req[t]) : \E a \in CatalogAnswers(s) :
          /\ lastStatus' = ClassifyStatus(s, TextRead(a))
          /\ csAnswer' = a
    /\ ClearReq(t)
    /\ Goto(t, "cs_ret")
    /\ UNCHANGED <<edition, dispVars, loc, lockHolder, procVars, fsVars, dropped, lastResult,
                   spawnHist, csSeen>>

\* check_ollama_status: Ok(status) has gone to the caller
StatusReturn(t) ==
    /\ pc[t] = "cs_ret"
    /\ Goto(t, "idle")
    /\ lastStatus' = NoStatus
    /\ csAnswer' = NoAnswer
    /\ csSeen' = [holder |-> NoTask, stuck |-> FALSE]
    /\ loc' = [loc EXCEPT ![t] = NoLoc]
    /\ UNCHANGED <<edition, dispVars, req, lockHolder, procVars, fsVars, dropped,
                   lastResult, spawnHist>>

----------------------------------------------------------------------------
(* stop() and Drop. *)

\* the supervisor and its children, as stop() sees and leaves them
Manager == [process |-> process, live |-> liveChildren, killed |-> killed]

\* a stop() that kills but keeps the handle
StopKeepsHandle(m, killOk) ==
    [process |-> m.process,
     live |-> IF killOk THEN m.live \ {m.process} ELSE m.live,
     killed |-> m.killed \cup {m.process}]

\* if let Some(mut child) = self.process.take() { child.kill().ok(); }
\* take() leaves None; the Result of kill() is dropped by ok()
Stop(m, killOk) ==
    IF m.process = 0 THEN m
    ELSE [process |-> 0,
          live |-> IF killOk THEN m.live \ {m.process} ELSE m.live,
          killed |-> m.killed \cup {m.process}]

\* what a stop() finds
StopFinds(m) ==
    IF m.process = 0 THEN "absent"
    ELSE IF m.process \in m.live THEN "live" ELSE "exited"

\* stop() runs on the supervisor; kill() changes nothing for a child that has exited
StopEffect ==
    \E killOk \in (IF process \in liveChildren THEN {TRUE} ELSE {FALSE}) :
       LET m == Stop(Manager, killOk) IN
       /\ process' = m.process
       /\ liveChildren' = m.live
       /\ killed' = m.killed
       /\ stopSaw' = StopFinds(Manager)
       /\ spawnsSinceStop' = 0

\* a drop that does nothing
DropWithoutStop ==
    UNCHANGED <<process, liveChildren, killed, stopSaw, spawnsSinceStop>>

\* fn drop(&mut self) { self.stop(); }
DropEffect == StopEffect

\* impl Drop for OllamaManager: the last Arc goes when no task holds a clone
DropManager ==
    /\ ~dropped
    /\ lockHolder = NoTask
    /\ pc["bg"] = "done"
    /\ \A t \in Tasks \ {"bg"} : pc[t] = "idle"
    /\ DropEffect
    /\ dropped' = TRUE
    /\ UNCHANGED <<edition, dispVars, pc, req, loc, lockHolder, spawned, fsVars, outVars,
                   spawnWhileHeld, csSeen, csAnswer>>

\* environment: the child process exits on its own; the handle stays where it is
ChildExit ==
    /\ \E c \in liveChildren : liveChildren' = liveChildren \ {c}
    /\ UNCHANGED <<edition, dispVars, pc, req, loc, lockHolder, process, spawned, fsVars,
                   dropped, outVars, histVars>>

----------------------------------------------------------------------------
(* Properties of the supervisor, checked under Spec. *)

\* the pcs inside the body of start()
StartBody == {"start_entry", "probe_wait", "download", "fetch_wait", "body_wait",
              "models_dir", "settle_sleep"}

(* C1: between two stop()s at most one process is spawned, and a start()   *)
(* entered while a handle is held is at its return, with Ok, having sent   *)
(* no request and spawned nothing.                                         *)
C1_StartIdempotent ==
    /\ spawnsSinceStop <= 1
    /\ \A t \in SupTasks :
          loc[t].heldAtEntry =>
             /\ pc[t] = "start_ret"
             /\ loc[t].ret = "Ok"
             /\ loc[t].probe = "none"
             /\ req[t] = NoReq
             /\ spawned = loc[t].spawnedAt

\* a second start() has returned while the handle of the first spawn is held
C1_Witness ==
    \E t \in SupTasks :
       loc[t].heldAtEntry /\ pc[t] = "start_ret" /\ spawnsSinceStop = 1

(* C2: a start() whose liveness probe was answered with a success status   *)
(* is at its return with Ok, has spawned nothing and the handle is absent. *)
C2_ProbeSuccessNoSpawn ==
    \A t \in SupTasks :
       loc[t].probe = "success" =>
          /\ pc[t] = "start_ret"
          /\ loc[t].ret = "Ok"
          /\ process = 0
          /\ spawned = loc[t].spawnedAt

\* a start() entered without a handle got a success answer to its probe and returned
C2_Witness ==
    \E t \in SupTasks :
       /\ loc[t].probe = "success"
       /\ ~loc[t].heldAtEntry
       /\ pc[t] = "start_ret"

(* C3: whatever the interleaving of the background task and the command,   *)
(* at most one of them is inside start(), no spawn step ran while a handle *)
(* was held, and at most one spawned child is live.                        *)
C3_NoDoubleStart ==
    /\ Cardinality(liveChildren) <= 1
    /\ ~spawnWhileHeld
    /\ Cardinality({t \in SupTasks : pc[t] \in StartBody}) <= 1
    /\ \A t \in SupTasks : pc[t] \in StartBody => lockHolder = t

\* the command waits for the lock while the background task, past its spawn, holds it
C3_Witness ==
    /\ pc["cmd"] = "lock"
    /\ pc["bg"] = "settle_sleep"
    /\ lockHolder = "bg"
    /\ liveChildren = {process}

(* C4: a status query never holds the supervisor lock, and whoever holds   *)
(* that lock, the query can begin when it is idle and can complete when    *)
(* its request is in flight.                                               *)
C4_StatusLockFree ==
    \A t \in StatusTasks :
       /\ lockHolder # t
       /\ (pc[t] = "idle" /\ ~dropped) => ENABLED StatusBegin(t)
       /\ pc[t] = "cs_wait" => ENABLED StatusSettle(t)

\* a status query began and completed while the same task, stuck in a request that is
\* never answered, held the lock throughout
C4_Witness ==
    \E t \in StatusTasks :
       /\ pc[t] = "cs_ret"
       /\ lastStatus # NoStatus
       /\ csSeen.stuck
       /\ lockHolder = csSeen.holder
       /\ Stuck(lockHolder)

(* C5: every HTTP request in flight carries a finite timeout, so that no   *)
(* task waits for ever on a backend that never answers.                    *)
C5_EveryRequestTimeBounded ==
    \A t \in Tasks :
       req[t] # NoReq => IsSome(req[t].timeout) /\ ~Stuck(t)

(* The status query whose status has just been returned. *)
Returned(t) == pc[t] = "cs_ret"

\* the model names that hold one of the accepted markers
AcceptedModels == {"llava:7b", "llava:13b", "llama3.2-vision"}

(* C15: a status returned after the catalog request timed out, could not   *)
(* connect or was answered with a non-success status has running false,    *)
(* model_ready false and an error that is set and not empty.               *)
C15_FailedCatalogNotRunning ==
    \A t \in StatusTasks :
       (Returned(t) /\ csAnswer.status \in {"timeout", "conn_err", "status_err"}) =>
          /\ lastStatus.running = FALSE
          /\ lastStatus.model_ready = FALSE
          /\ IsSome(lastStatus.error)
          /\ lastStatus.error[1] # ""

\* a status returned after the catalog request timed out
C15_Witness ==
    \E t \in StatusTasks :
       /\ Returned(t)
       /\ csAnswer.status = "timeout"
       /\ ~lastStatus.running
       /\ IsSome(lastStatus.error)

(* C16 as stated: the returned model_ready is true exactly when the body   *)
(* of the catalog response holds an accepted marker, whatever the status   *)
(* of the response.                                                        *)
C16_ReadyIffMarkerInBody ==
    \A t \in StatusTasks :
       Returned(t) =>
          (lastStatus.model_ready <=> (csAnswer.body \cap AcceptedModels # {}))

(* C16, amended: the returned model_ready is true exactly when the catalog *)
(* request was answered with a success status and the body read from that  *)
(* response holds an accepted marker; the body of a response with another  *)
(* status is not looked at.                                                *)
C16_ReadyIffSuccessAndMarker ==
    \A t \in StatusTasks :
       Returned(t) =>
          (lastStatus.model_ready <=>
              /\ csAnswer.status = "success"
              /\ csAnswer.readable
              /\ csAnswer.body \cap AcceptedModels # {})

\* a status with model_ready false returned for a non-success response whose body holds
\* a marker, and the case of a success response whose only marker is "llava:"
C16_Witness ==
    \E t \in StatusTasks :
       /\ Returned(t)
       /\ \/ /\ csAnswer.status = "status_err"
             /\ "llava:7b" \in csAnswer.body
             /\ ~lastStatus.model_ready
          \/ /\ csAnswer.status = "success"
             /\ csAnswer.body = {"llava:13b"}
             /\ lastStatus.model_ready

(* C17: a returned status has error set exactly when running is false or   *)
(* the body of the response could not be read, and never has model_ready   *)
(* true with running false.                                                *)
C17_ErrorSetExactly ==
    \A t \in StatusTasks :
       Returned(t) =>
          /\ IsSome(lastStatus.error) <=>
                (~lastStatus.running \/ (lastStatus.running /\ ~csAnswer.readable))
          /\ lastStatus.model_ready => lastStatus.running

(* C18: on every state of the supervisor stop() leaves the handle absent,  *)
(* and a second stop() changes nothing; after the stop() of the drop the   *)
(* handle is absent whatever that stop() found.                            *)
C18_StopIdempotent ==
    /\ \A k1 \in BOOLEAN, k2 \in BOOLEAN :
          LET once == Stop(Manager, k1) IN
          /\ once.process = 0
          /\ Stop(once, k2) = once
    /\ stopSaw # "none" => process = 0

\* a stop() has run on a supervisor whose child had already exited
C18_Witness ==
    /\ stopSaw = "exited"
    /\ process = 0
    /\ killed # {}

(* C19: every child the supervisor has spawned is the one its handle holds *)
(* or has been sent a kill, and once the supervisor is dropped every child *)
(* it spawned has been sent a kill.                                        *)
C19_DropKills ==
    /\ \A c \in 1..spawned : c = process \/ c \in killed
    /\ dropped => (process = 0 /\ \A c \in 1..spawned : c \in killed)

\* a supervisor that held the handle of a live child has been dropped
C19_Witness ==
    /\ dropped
    /\ stopSaw = "live"
    /\ spawned >= 1
    /\ liveChildren = {}

(* C20: once the pull_model("llava:7b") of a start_ollama command has      *)
(* returned success the manifest is on disk, and a later pull_model of the *)
(* command sends no request to /api/pull.                                  *)
C20_PullIdempotent ==
    lastResult = "Ok" =>
       /\ manifest
       /\ req["cmd"].url # "/api/pull"


\* pull_model() is at its return in task t
PullReturning(t) == pc[t] = "pull_ret"

\* C21: when the manifest is absent and the pull request is answered with a non-success
\* HTTP status, pull_model() returns an error, has sent that one pull request and no
\* other, has no request in flight any more, and the process handle is the one it found
C21_PullStatusErrFails ==
    \A t \in SupTasks :
        PullReturning(t) /\ loc[t].pullAnswer = "status_err"
            => /\ loc[t].ret = "Err"
               /\ loc[t].sent = <<"/api/pull">>
               /\ req[t] = NoReq
               /\ process = loc[t].processAt

C21_Witness ==
    /\ PullReturning("cmd")
    /\ loc["cmd"].pullAnswer = "status_err"
    /\ ~manifest
    /\ process # 0

\* the steps of start() that can return an error
StartSteps == {"download", "permissions", "models_dir", "spawn"}

\* start() is at its return in task t
StartReturning(t) == pc[t] = "start_ret"

InsideOperation(t) ==
    pc[t] \in StartBody \cup {"start_ret", "pull_entry", "pull_wait", "pull_ret"}

\* C28: the supervisor lock is held only by a task that is inside start() or
\* pull_model(): once the operation has returned, with success or with an error, the
\* lock is free for a later start, stop or pull
C28_LockReleasedOnExit ==
    \A t \in SupTasks : lockHolder = t => InsideOperation(t)

\* C32: whenever start() returns Ok a server process is available: the handle holds a
\* child that is still alive at that moment, or an instance answered the liveness
\* probe of this call
C32_OkMeansServer ==
    \A t \in SupTasks :
        StartReturning(t) /\ loc[t].ret = "Ok"
            => loc[t].childAlive \/ loc[t].probe = "success"

\* this start() sent the GET of the release binary
Fetched(t) == \E i \in 1..Len(loc[t].sent) : loc[t].sent[i] = "release"

\* the binary acquisition of this start() failed: the fetch was answered with an error
\* status, or the body read, the file creation, the write or the permission setting
\* returned an error
AcquisitionFailed(t) ==
    /\ Fetched(t)
    /\ loc[t].body = "errorpage" \/ loc[t].failed \in {"download", "permissions"}

\* C33: a start() whose binary acquisition failed leaves no file at the binary path
C33_FailedAcquisitionLeavesNoFile ==
    \A t \in SupTasks :
        StartReturning(t) /\ AcquisitionFailed(t) => binFile = "absent"

----------------------------------------------------------------------------
(* Dispatch: the provider calls and the two-provider comparison.           *)
(*                                                                         *)
(* Every client of these calls has a timeout, so a backend that never      *)
(* answers and one that answers too late settle the request the same way:  *)
(* the requests are sent with silent = FALSE and "timeout" is among the    *)
(* ways each can settle.                                                   *)

(* Bounds of the dispatch model. *)
\* the last tick of the clock
MaxClock == 2
\* ticks in one millisecond: Duration::as_millis() drops the part below one
TicksPerMs == 2

\* the two branches of analyze_ab_test's join!
AbBranches == {"ab_llava", "ab_moondream"}
\* the commands invoked on their own
DirectCalls == {"llava", "moondream", "image"}
Calls == AbBranches \cup DirectCalls
LlavaCalls == {"ab_llava", "llava"}
MoondreamCalls == {"ab_moondream", "moondream"}
\* the analyze_image command
ImageCalls == {"image"}
\* the calls served by the local server: they pass the readiness gate
LocalCalls == LlavaCalls \cup ImageCalls

\* the provider a branch is tagged with
ProviderOf(c) == IF c \in LlavaCalls THEN "llava" ELSE "moondream"

\* the operations of MoondreamManager
MoondreamOps == {"query", "caption", "detect", "point"}

\* MoondreamManager::new: Client::builder().timeout(Duration::from_secs(30))
MoondreamTimeoutMs == 30000
\* analyze_with_llava: timeout.unwrap_or(30000)
LlavaDefaultTimeoutMs == 30000
\* analyze_with_llava_internal passes Some(30000)
AbLlavaTimeoutMs == 30000
\* analyze_image: Client::builder().timeout(Duration::from_secs(30))
ImageTimeoutMs == 30000
\* the timeout argument a caller of the analyze_with_llava command may give
LlavaTimeoutArgs == {None, Some(5000)}

UnwrapOr(o, d) == IF IsSome(o) THEN o[1] ELSE d

\* start_time.elapsed().as_millis()
ElapsedMs(from, to) == (to - from) \div TicksPerMs

(* Result<T, String> *)
NoOut == [tag |-> "none"]
Err(e) == [tag |-> "Err", error |-> e]
Ok(v) == [tag |-> "Ok", value |-> v]

AnalysisResult(response, structured_data, ms, confidence, error) ==
    [provider |-> "moondream", response |-> response,
     structured_data |-> structured_data, processing_time_ms |-> ms,
     confidence |-> confidence, error |-> error]

(* The bodies a backend sends with a success status.                       *)
(*   unparseable  not JSON, or the body could not be read                  *)
(*   empty        the JSON object {}                                       *)
(*   plain        the fields of the operation, the text without braces     *)
(*   structured   the fields of the operation, the text holding a JSON     *)
(*                object, and a confidence                                 *)
Bodies == {"unparseable", "empty", "plain", "structured"}

(* A text is a sequence of tokens: the two braces, K for a key with its     *)
(* colon ("k":), V for a scalar value, X for any other run of characters.   *)
(* Keys, scalars and runs hold no brace.                                    *)
Tokens == {"{", "}", "K", "V", "X"}
\* tokens in a reply text
MaxText == 5
Texts == UNION {[1..n -> Tokens] : n \in 0..MaxText}

\* String::new()
EmptyText == <<>>
\* a string literal of the source, as a text of one run
Literal(str) == <<str>>

\* result[field].as_str().unwrap_or("")
TextOf(body) ==
    CASE body = "plain" -> <<"X">>
      [] body = "structured" -> <<"X", "{", "K", "V", "}">>
      [] OTHER -> EmptyText

\* str::find(ch): the index of the first ch
RECURSIVE FindFrom(_, _, _)
FindFrom(txt, ch, i) ==
    IF i > Len(txt) THEN None
    ELSE IF txt[i] = ch THEN Some(i)
    ELSE FindFrom(txt, ch, i + 1)

Find(txt, ch) == FindFrom(txt, ch, 1)

\* a search for the last ch that stops at the first one
RFindFirst(txt, ch) == Find(txt, ch)

\* str::rfind(ch): the index of the last ch
RECURSIVE RFindFrom(_, _, _)
RFindFrom(txt, ch, i) ==
    IF i < 1 THEN None
    ELSE IF txt[i] = ch THEN Some(i)
    ELSE RFindFrom(txt, ch, i - 1)

RFind(txt, ch) == RFindFrom(txt, ch, Len(txt))

(* serde_json::from_str::<Value> on a slice that begins with '{': an object *)
(* is {} or { "k": value }, a value is a scalar or an object, and nothing   *)
(* may follow the value.                                                    *)
\* serde_json::Value
Scalar == [kind |-> "scalar", members |-> <<>>]
Object(members) == [kind |-> "object", members |-> members]

NoParse == [ok |-> FALSE, next |-> 0, value |-> Scalar]
Parsed(next, value) == [ok |-> TRUE, next |-> next, value |-> value]

RECURSIVE ParseValue(_, _)
ParseValue(txt, i) ==
    IF i > Len(txt) THEN NoParse
    ELSE IF txt[i] = "V" THEN Parsed(i + 1, Scalar)
    ELSE IF txt[i] # "{" THEN NoParse
    ELSE IF i + 1 <= Len(txt) /\ txt[i + 1] = "}" THEN Parsed(i + 2, Object(<<>>))
    ELSE IF i + 1 <= Len(txt) /\ txt[i + 1] = "K"
      THEN LET v == ParseValue(txt, i + 2)
           IN  IF v.ok /\ v.next <= Len(txt) /\ txt[v.next] = "}"
                 THEN Parsed(v.next + 1, Object(<<v.value>>))
                 ELSE NoParse
    ELSE NoParse

FromStr(txt) ==
    LET r == ParseValue(txt, 1)
    IN  IF r.ok /\ r.next = Len(txt) + 1 THEN Ok(r.value) ELSE Err("syntax")

\* try_parse_structured: the slice from the first '{' to the last '}', if it parses
TryParseStructured(txt) ==
    LET start == Find(txt, "{")
        end == RFind(txt, "}")
    IN  IF IsSome(start) /\ IsSome(end) /\ end[1] > start[1]
          THEN LET r == FromStr(SubSeq(txt, start[1], end[1]))
               IN  IF r.tag = "Ok" THEN Some(r.value) ELSE None
          ELSE None

\* result["confidence"].as_f64()
ConfidenceOf(body) == IF body = "structured" THEN Some("confidence") ELSE None

\* result["objects"].clone(): Null when the field is missing
ObjectsOf(body) == IF body = "empty" THEN "null" ELSE "objects"

\* the Ok(AnalysisResult) of an answer with a success status and a body that parsed
MoondreamSuccess(op, body, ms) ==
    CASE op = "query" ->
           AnalysisResult(TextOf(body), TryParseStructured(TextOf(body)), ms,
                          ConfidenceOf(body), None)
      [] op = "caption" ->
           AnalysisResult(TextOf(body), None, ms, None, None)
      [] op = "detect" ->
           AnalysisResult(Literal("Detected objects"), Some(ObjectsOf(body)), ms, None, None)
      [] OTHER ->
           AnalysisResult(Literal("Object coordinates"), Some(body), ms, None, None)

\* a non-success status raised as an error
MoondreamStatusErrRaised(op, ms) == Err("API error")

\* the error text of an operation's non-success branch
StatusErrText(op) ==
    IF op = "query" THEN "API error"
    ELSE IF op = "caption" THEN "Caption API error"
    ELSE IF op = "detect" THEN "Detect API error"
    ELSE "Point API error"

\* an error result that keeps a response text beside its error
ErrorResultWithResponse(op, ms) ==
    AnalysisResult(Literal("partial"), None, ms, None, Some(StatusErrText(op)))

\* AnalysisResult { response: String::new(), structured_data: None, confidence: None,
\*                  error: Some(..) }
ErrorResult(op, ms) ==
    AnalysisResult(EmptyText, None, ms, None, Some(StatusErrText(op)))

\* if !response.status().is_success() { return Ok(AnalysisResult { error: Some(..) }) }
MoondreamStatusErr(op, ms) == Ok(ErrorResult(op, ms))

\* what query, caption, detect or point returns once send().await has settled with s
\* and, on success, the body has been read
MoondreamOutcome(op, s, body, ms) ==
    IF IsSendErr(s) THEN Err("Moondream request failed")
    ELSE IF ~IsSuccess(s) THEN MoondreamStatusErr(op, ms)
    ELSE IF body = "unparseable" THEN Err("Failed to parse Moondream response")
    ELSE Ok(MoondreamSuccess(op, body, ms))

\* analyze_with_llava after the gate: what it returns once the generate request settled
LlavaOutcome(s, body) ==
    IF IsSendErr(s) THEN Err("Failed to analyze")
    ELSE IF ~IsSuccess(s) THEN Err("Analysis failed")
    ELSE IF body = "unparseable" THEN Err("Failed to parse response")
    ELSE IF body = "structured" THEN Ok([json |-> "parsed response text"])
    ELSE Ok([json |-> "result"])

(* AnalyzeResponse, the result of analyze_image *)
AnalyzeResponse(description, error) == [description |-> description, error |-> error]

\* result["response"].as_str().unwrap_or("No description available")
DescriptionOf(body) ==
    IF body = "empty" THEN Literal("No description available") ELSE TextOf(body)

\* analyze_image after the gate: what it returns once the generate request settled
ImageOutcome(s, body) ==
    IF IsSendErr(s) THEN Err("Failed to analyze image")
    ELSE IF ~IsSuccess(s) THEN Ok(AnalyzeResponse(EmptyText, Some("Analysis failed")))
    ELSE IF body = "unparseable" THEN Err("Failed to parse response")
    ELSE Ok(AnalyzeResponse(DescriptionOf(body), None))

\* what a call served by the local server returns when its gate fails
NotReady(c) ==
    IF c \in ImageCalls THEN Ok(AnalyzeResponse(EmptyText, Some("Ollama not ready")))
    ELSE Err("Ollama not ready")

\* a gate that lets every call through
GateNeverFails(status) == FALSE

\* if !status.running || !status.model_ready
GateFails(status) == ~status.running \/ ~status.model_ready

(* The entry of a branch in the report: analyze_with_llava_internal and    *)
(* analyze_with_moondream_internal.                                        *)
Entry(c, out) ==
    IF out.tag = "Ok"
      THEN [success |-> TRUE, result |-> Some(out.value), error |-> None,
            provider |-> ProviderOf(c)]
      ELSE [success |-> FALSE, result |-> None,
            error |-> IF out.tag = "Err" THEN Some(out.error) ELSE None,
            provider |-> ProviderOf(c)]

NoReport == [tag |-> "none"]

\* a total clock started only after the branches have settled
TotalTimeStartedLate(start, end) == ElapsedMs(end, end)

\* start_time.elapsed().as_millis() as u64, start_time taken before join!
TotalTime(start, end) == ElapsedMs(start, end)

\* a comparison that passes a branch's raised error on with `?`
AbResultPropagating(l, m, total) ==
    IF l.tag = "Err" THEN Err(l.error)
    ELSE IF m.tag = "Err" THEN Err(m.error)
    ELSE Ok([llava |-> Entry("ab_llava", l), moondream |-> Entry("ab_moondream", m),
             total_comparison_time_ms |-> total])

\* Ok(json!({ "llava": .., "moondream": .., "total_comparison_time_ms": .. }))
AbResult(l, m, total) ==
    Ok([llava |-> Entry("ab_llava", l), moondream |-> Entry("ab_moondream", m),
        total_comparison_time_ms |-> total])

\*   op        the MoondreamManager operation of the call
\*   timeout   the timeout the caller asks for (the timeout argument of
\*             analyze_with_llava; the other commands have no such parameter)
\*   start     start_time of the MoondreamManager operation
\*   elapsed   its processing_time
\*   answers   how each request of the call settled, in order: <<status, body>>
\*   sent      the endpoints the call has sent a request to, in order
\*   catalog   the catalog its readiness check read, while the inference request that
\*             follows is in flight
NoCloc == [op |-> "none", timeout |-> None, start |-> 0, elapsed |-> 0, answers |-> <<>>,
           sent |-> <<>>, catalog |-> {}]

InitDisp ==
    /\ now = 0
    /\ mdLock = NoTask
    /\ cpc = [c \in Calls |-> "idle"]
    /\ creq = [c \in Calls |-> NoReq]
    /\ cloc = [c \in Calls |-> NoCloc]
    /\ cout = [c \in Calls |-> NoOut]
    /\ abPc = "idle"
    /\ abStart = 0
    /\ report = NoReport

CGoto(c, where) == cpc' = [cpc EXCEPT ![c] = where]
CSend(c, r) == creq' = [creq EXCEPT ![c] = r]
\* the request of c settled with s and body: it is gone and the answer is on record
Answered(c, s, body) ==
    /\ creq' = [creq EXCEPT ![c] = NoReq]
    /\ cloc' = [cloc EXCEPT ![c].answers = Append(@, <<s, body>>), ![c].catalog = {}]
\* the bodies that can come with s
BodiesOf(s) == IF IsSuccess(s) THEN Bodies ELSE {"none"}

\* a call returns out; a sibling joined with it by join! stays as it is
SettledCancelling(c, out) ==
    /\ cpc' = [b \in Calls |->
                 IF b = c \/ (c \in AbBranches /\ b \in AbBranches /\ out.tag = "Err")
                   THEN "returned" ELSE cpc[b]]
    /\ cout' = [cout EXCEPT ![c] = out]

Settled(c, out) ==
    /\ cpc' = [cpc EXCEPT ![c] = "returned"]
    /\ cout' = [cout EXCEPT ![c] = out]

dispFrame == <<edition, supVars, unitVars>>

----------------------------------------------------------------------------
(* analyze_with_llava *)

\* the model the generate request names: "model": "llava:7b"
RequestedModel == "llava:7b"

\* what the call keeps of the catalog request: how it settled and whether the body
\* has a marker
GateAnswer(s, body) == <<s, IF HasMarker(body) THEN "ready" ELSE "not_ready">>

\* the analyze_with_llava command is invoked with a timeout argument
InvokeLlava ==
    /\ cpc["llava"] = "idle"
    /\ \E to \in LlavaTimeoutArgs :
          cloc' = [cloc EXCEPT !["llava"] = [NoCloc EXCEPT !.timeout = to]]
    /\ CGoto("llava", "entry")
    /\ UNCHANGED <<dispFrame, now, mdLock, creq, cout, abPc, abStart, report>>

\* an analyze_with_llava that sends its generate request without a readiness check
LlavaEntrySkipsGate(c) ==
    /\ cpc[c] = "entry"
    /\ CSend(c, Request("/api/generate",
                         Some(UnwrapOr(cloc[c].timeout, LlavaDefaultTimeoutMs)), FALSE))
    /\ cloc' = [cloc EXCEPT ![c].sent = Append(@, "/api/generate")]
    /\ CGoto(c, "gen_wait")
    /\ UNCHANGED <<dispFrame, now, mdLock, cout, abPc, abStart, report>>

\* OllamaManager::check_status().await: the catalog request is sent
LlavaEntry(c) ==
    /\ cpc[c] = "entry"
    /\ CSend(c, Request("/api/tags", StatusTimeout, FALSE))
    /\ cloc' = [cloc EXCEPT ![c].sent = Append(@, "/api/tags")]
    /\ CGoto(c, "gate_wait")
    /\ UNCHANGED <<dispFrame, now, mdLock, cout, abPc, abStart, report>>

\* the status is back: Err("Ollama not ready") unless running and model_ready, else
\* the generate request is sent by a client with the call's timeout
LlavaGate(c) ==
    /\ cpc[c] = "gate_wait"
    /\ \E s \in Settles(creq[c]) :
       \E body \in (IF IsSuccess(s) THEN CatalogBodies ELSE {{}}) :
          /\ IF GateFails(ClassifyStatus(s, body))
               THEN /\ Settled(c, NotReady(c))
                    /\ creq' = [creq EXCEPT ![c] = NoReq]
                    /\ cloc' = [cloc EXCEPT ![c].answers = Append(@, GateAnswer(s, body))]
               ELSE /\ cloc' = [cloc EXCEPT ![c].answers = Append(@, GateAnswer(s, body)),
                                            ![c].sent = Append(@, "/api/generate"),
                                            ![c].catalog = body]
                    /\ CSend(c, Request("/api/generate",
                                         Some(UnwrapOr(cloc[c].timeout,
                                                       LlavaDefaultTimeoutMs)),
                                         FALSE))
                    /\ CGoto(c, "gen_wait")
                    /\ UNCHANGED cout
    /\ UNCHANGED <<dispFrame, now, mdLock, abPc, abStart, report>>

\* the generate request settles and the call returns
LlavaGenSettle(c) ==
    /\ cpc[c] = "gen_wait"
    /\ \E s \in Settles(creq[c]) : \E body \in BodiesOf(s) :
          /\ Answered(c, s, body)
          /\ Settled(c, LlavaOutcome(s, body))
    /\ UNCHANGED <<dispFrame, now, mdLock, abPc, abStart, report>>

----------------------------------------------------------------------------
(* analyze_image *)

\* the analyze_image command is invoked
InvokeImage ==
    /\ cpc["image"] = "idle"
    /\ cloc' = [cloc EXCEPT !["image"] = NoCloc]
    /\ CGoto("image", "entry")
    /\ UNCHANGED <<dispFrame, now, mdLock, creq, cout, abPc, abStart, report>>

\* OllamaManager::check_status().await: the catalog request is sent
ImageEntry(c) ==
    /\ cpc[c] = "entry"
    /\ CSend(c, Request("/api/tags", StatusTimeout, FALSE))
    /\ cloc' = [cloc EXCEPT ![c].sent = Append(@, "/api/tags")]
    /\ CGoto(c, "gate_wait")
    /\ UNCHANGED <<dispFrame, now, mdLock, cout, abPc, abStart, report>>

\* the status is back: Ok(AnalyzeResponse { error: Some("Ollama not ready") }) unless
\* running and model_ready, else the generate request is sent by a client with a 30 s
\* timeout
ImageGate(c) ==
    /\ cpc[c] = "gate_wait"
    /\ \E s \in Settles(creq[c]) :
       \E body \in (IF IsSuccess(s) THEN CatalogBodies ELSE {{}}) :
          /\ IF GateFails(ClassifyStatus(s, body))
               THEN /\ Settled(c, NotReady(c))
                    /\ creq' = [creq EXCEPT ![c] = NoReq]
                    /\ cloc' = [cloc EXCEPT ![c].answers = Append(@, GateAnswer(s, body))]
               ELSE /\ cloc' = [cloc EXCEPT ![c].answers = Append(@, GateAnswer(s, body)),
                                            ![c].sent = Append(@, "/api/generate"),
                                            ![c].catalog = body]
                    /\ CSend(c, Request("/api/generate", Some(ImageTimeoutMs), FALSE))
                    /\ CGoto(c, "gen_wait")
                    /\ UNCHANGED cout
    /\ UNCHANGED <<dispFrame, now, mdLock, abPc, abStart, report>>

\* the generate request settles and the command returns
ImageGenSettle(c) ==
    /\ cpc[c] = "gen_wait"
    /\ \E s \in Settles(creq[c]) : \E body \in BodiesOf(s) :
          /\ Answered(c, s, body)
          /\ Settled(c, ImageOutcome(s, body))
    /\ UNCHANGED <<dispFrame, now, mdLock, abPc, abStart, report>>

----------------------------------------------------------------------------
(* analyze_with_moondream, moondream_caption, moondream_detect,            *)
(* moondream_point: state.moondream.lock().await, then the operation.      *)

\* one of the four commands is invoked; none of them has a timeout parameter, so a
\* timeout the caller asks for stays with the caller
InvokeMoondream ==
    /\ cpc["moondream"] = "idle"
    /\ \E op \in MoondreamOps : \E to \in LlavaTimeoutArgs :
          cloc' = [cloc EXCEPT !["moondream"] = [NoCloc EXCEPT !.op = op, !.timeout = to]]
    /\ CGoto("moondream", "entry")
    /\ UNCHANGED <<dispFrame, now, mdLock, creq, cout, abPc, abStart, report>>

\* the lock is taken, start_time is read and the request is sent
MoondreamAcquire(c) ==
    /\ cpc[c] = "entry"
    /\ mdLock = NoTask
    /\ mdLock' = c
    /\ cloc' = [cloc EXCEPT ![c].start = now, ![c].sent = Append(@, cloc[c].op)]
    /\ CSend(c, Request(cloc[c].op, Some(MoondreamTimeoutMs), FALSE))
    /\ CGoto(c, "req_wait")
    /\ UNCHANGED <<dispFrame, now, cout, abPc, abStart, report>>

\* the request settles, processing_time is read and the operation returns; the
\* command returns with it and its guard is dropped
MoondreamSettle(c) ==
    /\ cpc[c] = "req_wait"
    /\ \E s \in Settles(creq[c]) : \E body \in BodiesOf(s) :
          /\ creq' = [creq EXCEPT ![c] = NoReq]
          /\ cloc' = [cloc EXCEPT ![c].answers = Append(@, <<s, body>>),
                                  ![c].elapsed = ElapsedMs(cloc[c].start, now),
                                  ![c].start = 0]
          /\ Settled(c, MoondreamOutcome(cloc[c].op, s, body,
                                         ElapsedMs(cloc[c].start, now)))
    /\ mdLock' = IF mdLock = c THEN NoTask ELSE mdLock
    /\ UNCHANGED <<dispFrame, now, abPc, abStart, report>>

\* the command's result has gone to its caller
CallReturn(c) ==
    /\ cpc[c] = "returned"
    /\ CGoto(c, "idle")
    /\ cloc' = [cloc EXCEPT ![c] = NoCloc]
    /\ cout' = [cout EXCEPT ![c] = NoOut]
    /\ UNCHANGED <<dispFrame, now, mdLock, creq, abPc, abStart, report>>

----------------------------------------------------------------------------
(* analyze_ab_test *)

\* start_time is read and join! polls both branches
AbInvoke ==
    /\ abPc = "idle"
    /\ abStart' = now
    /\ abPc' = "joining"
    /\ cpc' = [c \in Calls |-> IF c \in AbBranches THEN "entry" ELSE cpc[c]]
    /\ cloc' = [cloc EXCEPT
                  !["ab_llava"] = [NoCloc EXCEPT !.timeout = Some(AbLlavaTimeoutMs)],
                  !["ab_moondream"] = [NoCloc EXCEPT !.op = "query"]]
    /\ UNCHANGED <<dispFrame, now, mdLock, creq, cout, report>>

\* a join that completes with its first branch
AnySettled == \E b \in AbBranches : cpc[b] = "returned"

\* tokio::join!: completes when both futures have completed
AllSettled == \A b \in AbBranches : cpc[b] = "returned"

\* join! is over: total_time is read and the report is built
AbJoin ==
    /\ abPc = "joining"
    /\ AllSettled
    /\ report' = AbResult(cout["ab_llava"], cout["ab_moondream"],
                          TotalTime(abStart, now))
    /\ abPc' = "done"
    /\ UNCHANGED <<dispFrame, now, mdLock, cpc, creq, cloc, cout, abStart>>

\* the report has gone to the caller
AbReturn ==
    /\ abPc = "done"
    /\ abPc' = "idle"
    /\ report' = NoReport
    /\ abStart' = 0
    /\ cpc' = [c \in Calls |-> IF c \in AbBranches THEN "idle" ELSE cpc[c]]
    /\ cloc' = [c \in Calls |-> IF c \in AbBranches THEN NoCloc ELSE cloc[c]]
    /\ cout' = [c \in Calls |-> IF c \in AbBranches THEN NoOut ELSE cout[c]]
    /\ creq' = [c \in Calls |-> IF c \in AbBranches THEN NoReq ELSE creq[c]]
    /\ UNCHANGED <<dispFrame, now, mdLock>>

\* time passes
Tick ==
    /\ now < MaxClock
    /\ now' = now + 1
    /\ UNCHANGED <<dispFrame, mdLock, cpc, creq, cloc, cout, abPc, abStart, report>>

----------------------------------------------------------------------------
----------------------------------------------------------------------------
(* query(): `let structured_data = self.try_parse_structured(&answer);` *)

\* try_parse_structured has not been called
Unset == [called |-> FALSE, value |-> None]

ExtractStructured ==
    /\ parsed = Unset
    /\ parsed' = [called |-> TRUE, value |-> TryParseStructured(text)]
    /\ UNCHANGED <<edition, supVars, callVars, text, yoloVars>>

----------------------------------------------------------------------------
(* yolo_detector.rs: YoloDetector. *)

\* no detect() has been called
NoDetect == [ready |-> FALSE, decoded |-> FALSE, out |-> NoOut]

\* detect() calls the model lets a detector serve
MaxFrames == 4

(* A frame argument: a string that is not base64, or the base64 of an image *)
(* of len bytes whose first 1000 bytes average to brightness tenths of 255. *)
(* An image without bytes has no average: the code takes 0.5.               *)
FrameLens == {0, 20000, 40000, 60000}
Brightness == {1, 3, 5, 7}
Frames ==
    {[base64 |-> FALSE, len |-> 0, brightness |-> 5]}
      \cup {[base64 |-> TRUE, len |-> l, brightness |-> b] :
               l \in FrameLens \ {0}, b \in Brightness}
      \cup {[base64 |-> TRUE, len |-> 0, brightness |-> 5]}

BoundingBox(class_name, width, height) ==
    [class_name |-> class_name, width |-> width, height |-> height]

\* simulate_detection: persons by activity level (> 0.2, > 0.4, > 0.6), objects by
\* complexity = len / 100000 (> 0.3, > 0.5)
SimulateDetection(frame) ==
    (IF frame.brightness > 2 THEN <<BoundingBox("person", 100, 250)>> ELSE <<>>)
      \o (IF frame.brightness > 4 THEN <<BoundingBox("person", 80, 240)>> ELSE <<>>)
      \o (IF frame.brightness > 6 THEN <<BoundingBox("person", 100, 250)>> ELSE <<>>)
      \o (IF frame.len > 30000 THEN <<BoundingBox("backpack", 80, 80)>> ELSE <<>>)
      \o (IF frame.len > 50000 THEN <<BoundingBox("handbag", 80, 80)>> ELSE <<>>)

\* the processing resolution, 640.0 * 480.0
FrameArea == 640 * 480

RECURSIVE TotalArea(_)
TotalArea(detections) ==
    IF detections = <<>> THEN 0
    ELSE Head(detections).width * Head(detections).height + TotalArea(Tail(detections))

CountOf(detections, class_name) ==
    Cardinality({i \in 1..Len(detections) : detections[i].class_name = class_name})

Min2(a, b) == IF a < b THEN a ELSE b

\* process_detections: crowd_density and zone_occupancy in square pixels of the frame
\* area, motion_intensity in tenths
ProcessDetections(detections) ==
    [person_count |-> CountOf(detections, "person"),
     object_counts |-> [c \in {detections[i].class_name : i \in 1..Len(detections)} |->
                          CountOf(detections, c)],
     crowd_density |-> Min2(TotalArea(detections), FrameArea),
     motion_intensity |-> Min2(CountOf(detections, "person"), 10),
     zone_occupancy |-> Min2(TotalArea(detections), FrameArea)]

\* YoloDetector::new()
InitYolo ==
    /\ model_loaded = FALSE
    /\ yoloPc = "idle"
    /\ initDone = FALSE
    /\ detectLog = NoDetect
    /\ framesSeen = 0

\* is_ready()
IsReady == model_loaded

\* initialize(&mut self) is entered and sleeps 500 ms
InitializeBegin ==
    /\ yoloPc = "idle"
    /\ yoloPc' = "initializing"
    /\ UNCHANGED <<edition, supVars, callVars, parseVars, model_loaded, initDone,
                   detectLog, framesSeen>>

\* self.model_loaded = true; Ok(())
InitializeEnd ==
    /\ yoloPc = "initializing"
    /\ model_loaded' = TRUE
    /\ initDone' = TRUE
    /\ yoloPc' = "idle"
    /\ UNCHANGED <<edition, supVars, callVars, parseVars, detectLog, framesSeen>>

\* a detect() that goes on to the frame whether or not the model is loaded
DetectUnguarded(loaded, frame) ==
    IF ~frame.base64
      THEN [ready |-> loaded, decoded |-> TRUE, out |-> Err("Failed to decode image")]
      ELSE [ready |-> loaded, decoded |-> TRUE,
            out |-> Ok(ProcessDetections(SimulateDetection(frame)))]

\* detect(&self, frame_base64): what it does and returns
DetectOutcome(loaded, frame) ==
    IF ~loaded
      THEN [ready |-> loaded, decoded |-> FALSE, out |-> Err("YOLO model not loaded")]
    ELSE IF ~frame.base64
      THEN [ready |-> loaded, decoded |-> TRUE, out |-> Err("Failed to decode image")]
    ELSE [ready |-> loaded, decoded |-> TRUE,
          out |-> Ok(ProcessDetections(SimulateDetection(frame)))]

\* detect() on a detector that initialize() does not hold by &mut self
Detect(frame) ==
    /\ yoloPc = "idle"
    /\ framesSeen < MaxFrames
    /\ framesSeen' = framesSeen + 1
    /\ detectLog' = DetectOutcome(IsReady, frame)
    /\ UNCHANGED <<edition, supVars, callVars, parseVars, model_loaded, yoloPc, initDone>>

----------------------------------------------------------------------------
(* The specifications. *)

\* no reply text is being looked at
InitParseIdle ==
    /\ text = EmptyText
    /\ parsed = Unset

\* run(): the detector is created, initialized and then put into AppState
InitYoloReady ==
    /\ model_loaded = TRUE
    /\ yoloPc = "idle"
    /\ initDone = TRUE
    /\ detectLog = NoDetect
    /\ framesSeen = 0

Init ==
    /\ edition \in Editions
    /\ InitSup
    /\ InitDisp
    /\ InitParseIdle
    /\ InitYoloReady

Next ==
    \/ InvokeStartOllama
    \/ \E t \in SupTasks : Acquire(t)
    \/ \E t \in SupTasks : StartEntry(t)
    \/ \E t \in SupTasks : ProbeSettle(t)
    \/ \E t \in SupTasks : DownloadEntry(t)
    \/ \E t \in SupTasks : FetchSettle(t)
    \/ \E t \in SupTasks : BodySettle(t)
    \/ \E t \in SupTasks : SpawnStep(t)
    \/ \E t \in SupTasks : SettleSleep(t)
    \/ \E t \in SupTasks : PullEntry(t)
    \/ \E t \in SupTasks : PullSettle(t)
    \/ CmdStartRet
    \/ CmdPullRet
    \/ BgStartRet
    \/ BgLock2
    \/ BgPullRet
    \/ BgPreloadSettle
    \/ \E t \in StatusTasks : StatusBegin(t)
    \/ \E t \in StatusTasks : StatusSettle(t)
    \/ \E t \in StatusTasks : StatusReturn(t)
    \/ DropManager
    \/ ChildExit

Spec == Init /\ [][Next]_vars

(* The dispatch specifications start from one state of the supervisor,    *)
(* which they leave alone.                                                 *)
InitDispatch ==
    /\ edition = 2021
    /\ InitSup
    /\ binFile = "good"
    /\ manifest
    /\ InitDisp
    /\ InitParseIdle
    /\ InitYoloReady

(* The comparison, with a moondream command of its own invoked beside it. *)
NextDispatch ==
    \/ AbInvoke
    \/ LlavaEntry("ab_llava")
    \/ LlavaGate("ab_llava")
    \/ LlavaGenSettle("ab_llava")
    \/ InvokeMoondream
    \/ \E c \in MoondreamCalls : MoondreamAcquire(c)
    \/ \E c \in MoondreamCalls : MoondreamSettle(c)
    \/ CallReturn("moondream")
    \/ AbJoin
    \/ AbReturn
    \/ Tick

SpecDispatch == InitDispatch /\ [][NextDispatch]_vars

(* The commands invoked on their own. *)
NextCalls ==
    \/ InvokeLlava
    \/ LlavaEntry("llava")
    \/ LlavaGate("llava")
    \/ LlavaGenSettle("llava")
    \/ InvokeMoondream
    \/ MoondreamAcquire("moondream")
    \/ MoondreamSettle("moondream")
    \/ InvokeImage
    \/ ImageEntry("image")
    \/ ImageGate("image")
    \/ ImageGenSettle("image")
    \/ \E c \in DirectCalls : CallReturn(c)
    \/ Tick

SpecCalls == InitDispatch /\ [][NextCalls]_vars

(* The same commands with the runtime's scheduling: a future that can go on *)
(* is polled again, and every request of these commands is answered or runs *)
(* into its client's timeout.  The moondream command is alone here, so its  *)
(* lock().await meets a free Mutex.  The clock only stamps processing_time  *)
(* and decides no step of a call: it stands still here.                     *)
NextLife ==
    \/ InvokeLlava
    \/ LlavaEntry("llava")
    \/ LlavaGate("llava")
    \/ LlavaGenSettle("llava")
    \/ InvokeMoondream
    \/ MoondreamAcquire("moondream")
    \/ MoondreamSettle("moondream")
    \/ InvokeImage
    \/ ImageEntry("image")
    \/ ImageGate("image")
    \/ ImageGenSettle("image")
    \/ \E c \in DirectCalls : CallReturn(c)

FairCalls ==
    /\ WF_vars(LlavaEntry("llava"))
    /\ WF_vars(LlavaGate("llava"))
    /\ WF_vars(LlavaGenSettle("llava"))
    /\ WF_vars(MoondreamAcquire("moondream"))
    /\ WF_vars(MoondreamSettle("moondream"))
    /\ WF_vars(ImageEntry("image"))
    /\ WF_vars(ImageGate("image"))
    /\ WF_vars(ImageGenSettle("image"))

SpecCallsFair == InitDispatch /\ [][NextLife]_vars /\ FairCalls

(* The operations that send requests, side by side: the start_ollama        *)
(* command with its start() and pull_model(), and a comparison with its two *)
(* provider operations, the local one behind its readiness check.           *)
InitRequests ==
    /\ edition = 2024
    /\ InitSup
    /\ InitDisp
    /\ InitParseIdle
    /\ InitYoloReady

NextRequests ==
    \/ InvokeStartOllama
    \/ Acquire("cmd")
    \/ StartEntry("cmd")
    \/ ProbeSettle("cmd")
    \/ DownloadEntry("cmd")
    \/ FetchSettle("cmd")
    \/ BodySettle("cmd")
    \/ SpawnStep("cmd")
    \/ SettleSleep("cmd")
    \/ PullEntry("cmd")
    \/ PullSettle("cmd")
    \/ CmdStartRet
    \/ CmdPullRet
    \/ AbInvoke
    \/ LlavaEntry("ab_llava")
    \/ LlavaGate("ab_llava")
    \/ LlavaGenSettle("ab_llava")
    \/ MoondreamAcquire("ab_moondream")
    \/ MoondreamSettle("ab_moondream")
    \/ AbJoin
    \/ AbReturn

SpecRequests == InitRequests /\ [][NextRequests]_vars

(* try_parse_structured on its own, over every reply text of up to MaxText *)
(* tokens.                                                                  *)
InitParse ==
    /\ edition = 2021
    /\ InitSup
    /\ binFile = "good"
    /\ manifest
    /\ InitDisp
    /\ InitYoloReady
    /\ text \in Texts
    /\ parsed = Unset

NextParse == ExtractStructured

SpecParse == InitParse /\ [][NextParse]_vars

(* A YoloDetector from its construction on. *)
InitDetector ==
    /\ edition = 2021
    /\ InitSup
    /\ binFile = "good"
    /\ manifest
    /\ InitDisp
    /\ InitParseIdle
    /\ InitYolo

NextDetector ==
    \/ InitializeBegin
    \/ InitializeEnd
    \/ \E frame \in Frames : Detect(frame)

SpecDetector == InitDetector /\ [][NextDetector]_vars

----------------------------------------------------------------------------
(* Properties of the dispatch, checked under SpecDispatch. *)

\* the call met a failure: a request of its own settled without a success status, the
\* gate found the model not ready, or a body did not parse
Failed(c) ==
    \E i \in 1..Len(cloc[c].answers) :
       \/ cloc[c].answers[i][1] # "success"
       \/ cloc[c].answers[i][2] \in {"not_ready", "unparseable"}

\* what the call returns when it is dispatched on its own and its requests are
\* answered as the answers on its record
AloneOutcome(c) ==
    LET a == cloc[c].answers IN
    IF Len(a) = 0 THEN NoOut
    ELSE IF c \in MoondreamCalls
      THEN MoondreamOutcome(cloc[c].op, a[1][1], a[1][2], cloc[c].elapsed)
    ELSE IF a[1] # <<"success", "ready">> THEN Err("Ollama not ready")
    ELSE IF Len(a) = 1 THEN NoOut
    ELSE LlavaOutcome(a[2][1], a[2][2])

\* the error an entry of the report carries: its own, or the one in its result
EntryError(e) ==
    IF IsSome(e.error) THEN e.error
    ELSE IF IsSome(e.result) /\ "error" \in DOMAIN e.result[1] THEN e.result[1].error
    ELSE None

(* C6: whatever the outcomes of the two branches, analyze_ab_test returns  *)
(* Ok with a report that has the entries llava and moondream and no other, *)
(* each tagged with its provider, and an entry carries an error exactly    *)
(* when its provider's call failed.                                        *)
C6_ReportAlwaysComplete ==
    abPc = "done" =>
       /\ report.tag = "Ok"
       /\ DOMAIN report.value = {"llava", "moondream", "total_comparison_time_ms"}
       /\ \A b \in AbBranches :
             LET e == report.value[ProviderOf(b)] IN
             /\ e.provider = ProviderOf(b)
             /\ Failed(b) <=> IsSome(EntryError(e))

\* a report of a comparison in which the moondream call raised an error and the llava
\* call succeeded
C6_Witness ==
    /\ abPc = "done"
    /\ cout["ab_moondream"].tag = "Err"
    /\ cout["ab_llava"].tag = "Ok"
    /\ report.tag = "Ok"

(* C7: a report exists only while analyze_ab_test is done, and then every  *)
(* branch has returned: none is waiting for a lock or has a request in     *)
(* flight.                                                                 *)
C7_ReportOnlyAfterAllSettled ==
    /\ (report # NoReport) <=> (abPc = "done")
    /\ report # NoReport =>
          \A b \in AbBranches :
             cpc[b] = "returned" /\ creq[b] = NoReq /\ cout[b] # NoOut

\* a report built after the llava branch failed at its gate and the moondream branch
\* answered
C7_Witness ==
    /\ report # NoReport
    /\ cout["ab_llava"] = Err("Ollama not ready")
    /\ cout["ab_moondream"].tag = "Ok"
    /\ \A b \in AbBranches : cpc[b] = "returned"

(* C8: a branch that has returned has returned an outcome of its own, the  *)
(* one the same call gives when dispatched alone and answered the same     *)
(* way, and that is what the report holds for it; a branch with a request  *)
(* in flight can settle it whatever its sibling has done.                  *)
C8_BranchesIsolated ==
    /\ \A c \in Calls :
          cpc[c] = "returned" =>
             /\ cout[c].tag \in {"Ok", "Err"}
             /\ cout[c] = AloneOutcome(c)
    /\ report # NoReport =>
          \A b \in AbBranches :
             report.value[ProviderOf(b)] = Entry(b, AloneOutcome(b))
    /\ cpc["ab_llava"] = "gate_wait" => ENABLED LlavaGate("ab_llava")
    /\ cpc["ab_llava"] = "gen_wait" => ENABLED LlavaGenSettle("ab_llava")
    /\ cpc["ab_moondream"] = "req_wait" => ENABLED MoondreamSettle("ab_moondream")

\* the llava branch has failed by a timeout and the moondream branch's request is
\* still in flight
C8_Witness ==
    /\ abPc = "joining"
    /\ cpc["ab_llava"] = "returned"
    /\ cout["ab_llava"].tag = "Err"
    /\ cloc["ab_llava"].answers[Len(cloc["ab_llava"].answers)][1] = "timeout"
    /\ cpc["ab_moondream"] = "req_wait"
    /\ creq["ab_moondream"] # NoReq

(* C9: the total time of a report is at least the processing time recorded *)
(* in each of its entries.                                                 *)
C9_TotalCoversBranches ==
    report # NoReport =>
       \A b \in AbBranches :
          LET e == report.value[ProviderOf(b)] IN
          (IsSome(e.result) /\ "processing_time_ms" \in DOMAIN e.result[1]) =>
             report.value.total_comparison_time_ms >= e.result[1].processing_time_ms

\* a report whose moondream entry records a processing time above zero
C9_Witness ==
    /\ report # NoReport
    /\ IsSome(report.value.moondream.result)
    /\ report.value.moondream.result[1].processing_time_ms >= 1

(* C10: a moondream operation, whichever of the four, whose request was    *)
(* answered with a non-success status returns Ok with an AnalysisResult    *)
(* whose error is set.                                                     *)
C10_StatusErrorIsSoft ==
    \A c \in MoondreamCalls :
       (cpc[c] = "returned" /\ cloc[c].answers[1][1] = "status_err") =>
          /\ cout[c].tag = "Ok"
          /\ IsSome(cout[c].value.error)
          /\ cout[c].value.provider = "moondream"

\* a detect or point command and the query of a comparison have both returned after a
\* non-success status
C10_Witness ==
    /\ cpc["moondream"] = "returned"
    /\ cloc["moondream"].op \in {"detect", "point"}
    /\ cloc["moondream"].answers[1][1] = "status_err"
    /\ cpc["ab_moondream"] = "returned"
    /\ cloc["ab_moondream"].answers[1][1] = "status_err"
    /\ cout["moondream"].tag = "Ok"

----------------------------------------------------------------------------
(* Properties of the commands invoked on their own, checked under          *)
(* SpecCalls.                                                              *)

\* the call has returned a result that carries an error in its error field
SoftFailure(c) ==
    /\ cout[c].tag = "Ok"
    /\ "error" \in DOMAIN cout[c].value
    /\ IsSome(cout[c].value.error)

\* the place of the inference request among the requests of the call: a call served
\* by the local server sends it after the catalog request of its gate
InferenceAt(c) == IF c \in LocalCalls THEN 2 ELSE 1

\* the inference request of the call met a failure of the backend: no connection, a
\* timeout, a non-success status or a body that does not parse
BackendFailed(c) ==
    /\ Len(cloc[c].answers) >= InferenceAt(c)
    /\ \/ cloc[c].answers[InferenceAt(c)][1] # "success"
       \/ cloc[c].answers[InferenceAt(c)][2] = "unparseable"

\* the readiness check of the call reported running and model ready
GatePassed(c) ==
    /\ Len(cloc[c].answers) >= 1
    /\ cloc[c].answers[1] = <<"success", "ready">>

\* the readiness check of the call reported not running or model not ready
GateFailed(c) ==
    /\ Len(cloc[c].answers) >= 1
    /\ cloc[c].answers[1] # <<"success", "ready">>

\* the generate request of the call was answered with a non-success status
GenerateStatusErr(c) ==
    /\ Len(cloc[c].answers) = 2
    /\ cloc[c].answers[2][1] = "status_err"

(* C11: a call whose inference request was sent (so it could be built) and *)
(* met a failure of the backend returns a result with its error set, not a *)
(* raised error.                                                           *)
C11_BackendFailuresAreSoft ==
    \A c \in DirectCalls :
       (cpc[c] = "returned" /\ BackendFailed(c)) =>
          /\ cout[c].tag # "Err"
          /\ SoftFailure(c)

(* C12: a result that a provider operation returned with its error set has *)
(* an empty response and no structured data (for analyze_image: an empty   *)
(* description).                                                           *)
C12_ErrorExcludesContent ==
    \A c \in DirectCalls :
       SoftFailure(c) =>
          IF c \in MoondreamCalls
            THEN /\ cout[c].value.response = EmptyText
                 /\ cout[c].value.structured_data = None
            ELSE cout[c].value.description = EmptyText

\* a detect operation, which fills structured_data on success, has returned a result
\* with its error set
C12_Witness ==
    /\ cpc["moondream"] = "returned"
    /\ cloc["moondream"].op = "detect"
    /\ SoftFailure("moondream")
    /\ cout["moondream"].value.structured_data = None

(* C13: a call served by the local server has a generate request in flight *)
(* or answered only if its own readiness check reported running and model  *)
(* ready; a call whose check reported otherwise has returned with no       *)
(* generate request sent.                                                  *)
C13_GateBeforeInference ==
    \A c \in LocalCalls :
       /\ (creq[c].url = "/api/generate" \/ Len(cloc[c].answers) >= 2) => GatePassed(c)
       /\ GateFailed(c) =>
             /\ cpc[c] = "returned"
             /\ creq[c] = NoReq
             /\ Len(cloc[c].answers) = 1
             /\ cout[c] = NotReady(c)

\* analyze_with_llava returned at its gate because the server runs without the model,
\* while the gate of analyze_image has passed and its generate request is in flight
C13_Witness ==
    /\ cpc["llava"] = "returned"
    /\ cloc["llava"].answers = << <<"success", "not_ready">> >>
    /\ GatePassed("image")
    /\ creq["image"].url = "/api/generate"

(* C14: every analysis command that found its provider not ready, or whose *)
(* backend answered with a non-success status, has returned a result       *)
(* object with its error set, not a raised error.                          *)
C14_ExpectedConditionsInResult ==
    \A c \in DirectCalls :
       (cpc[c] = "returned" /\ (GateFailed(c) \/ GenerateStatusErr(c)
                                \/ (c \in MoondreamCalls /\ cloc[c].answers[1][1] = "status_err"))) =>
          SoftFailure(c)

----------------------------------------------------------------------------
(* Provider clients and their timeouts. *)

\* call c has been invoked and waits for another call to give up the provider client
WaitsForProvider(c) == cpc[c] = "entry" /\ mdLock \notin {NoTask, c}

\* C23: two operations invoked on the cloud client at overlapping times are both in
\* flight at once: neither waits for the other to finish (checked under SpecDispatch)
C23_NoProviderCallWaits == \A c \in MoondreamCalls : ~WaitsForProvider(c)

\* the timeout a provider's client has when the caller gives none
DefaultTimeoutMs(c) ==
    IF c \in MoondreamCalls THEN MoondreamTimeoutMs
    ELSE IF c \in ImageCalls THEN ImageTimeoutMs
    ELSE LlavaDefaultTimeoutMs

\* the inference request of call c is in flight
InferenceInFlight(c) == cpc[c] \in {"gen_wait", "req_wait"}

\* C24: the inference request of a call is bounded by the timeout the caller asked
\* for, and by the provider's default when the caller asked for none, whichever the
\* provider (checked under SpecCalls)
C24_OverrideBoundsCall ==
    \A c \in DirectCalls :
        InferenceInFlight(c)
            => creq[c].timeout = Some(UnwrapOr(cloc[c].timeout, DefaultTimeoutMs(c)))

\* C30: while the generate request that follows a passed readiness gate is in flight,
\* the model it names is one of the models of the catalog the gate read (checked
\* under SpecCalls)
C30_RequestedModelInCatalog ==
    \A c \in LocalCalls :
        cpc[c] = "gen_wait" => RequestedModel \in cloc[c].catalog

----------------------------------------------------------------------------
(* Requests per invocation, checked under SpecRequests. *)

\* no endpoint occurs twice in q
NoRepeat(q) == \A i, j \in 1..Len(q) : q[i] = q[j] => i = j

\* the requests task t or call c has in flight are among those it has on record
SentOnRecord ==
    /\ \A t \in Tasks : req[t] # NoReq => req[t].url = loc[t].sent[Len(loc[t].sent)]
    /\ \A c \in Calls : creq[c] # NoReq => creq[c].url = cloc[c].sent[Len(cloc[c].sent)]

\* C29: one invocation of start(), of pull_model(), of a provider operation or of a
\* branch of the comparison sends at most one request to each endpoint it uses,
\* however its requests settle
C29_NoRetries ==
    /\ SentOnRecord
    /\ \A t \in Tasks : NoRepeat(loc[t].sent)
    /\ \A c \in Calls : NoRepeat(cloc[c].sent)

\* the pull failed, the generate request failed after a passed gate, and the cloud
\* request failed: each was sent once
C29_Witness ==
    /\ PullReturning("cmd") /\ loc["cmd"].pullAnswer = "conn_err"
    /\ cpc["ab_llava"] = "returned" /\ cout["ab_llava"].tag = "Err"
    /\ cloc["ab_llava"].sent = <<"/api/tags", "/api/generate">>
    /\ cpc["ab_moondream"] = "returned" /\ cloc["ab_moondream"].answers[1][1] = "timeout"
    /\ cloc["ab_moondream"].sent = <<"query">>

----------------------------------------------------------------------------
(* Structured-data extraction, checked under SpecParse. *)

\* where the braces of a text are
Opens(txt) == {i \in 1..Len(txt) : txt[i] = "{"}
Closes(txt) == {i \in 1..Len(txt) : txt[i] = "}"}
Least(S) == CHOOSE i \in S : \A j \in S : i <= j
Greatest(S) == CHOOSE i \in S : \A j \in S : j <= i

\* the slice of a text from its first '{' to its last '}'
BraceSlice(txt) == SubSeq(txt, Least(Opens(txt)), Greatest(Closes(txt)))

\* the text has a '{', a '}', and its last '}' is after its first '{'
HasBraceSlice(txt) ==
    /\ Opens(txt) # {}
    /\ Closes(txt) # {}
    /\ Greatest(Closes(txt)) > Least(Opens(txt))

----------------------------------------------------------------------------
(* The trigger detector, checked under SpecDetector. *)

\* C26: a detector is not ready before initialize() has completed and ready from
\* then on, for good; detect() returns the "YOLO model not loaded" error exactly when
\* the detector is not ready, and then has not decoded the frame
C26_ReadyAfterInitialize ==
    /\ [](IsReady <=> initDone)
    /\ [][IsReady => IsReady']_vars
    /\ [](detectLog # NoDetect
            => /\ detectLog.out = Err("YOLO model not loaded") <=> ~detectLog.ready
               /\ ~detectLog.ready => ~detectLog.decoded)

C26_Witness ==
    /\ IsReady
    /\ detectLog.out = Err("YOLO model not loaded")
    /\ framesSeen = 1

----------------------------------------------------------------------------
(* The life of a dispatched call, checked under SpecCallsFair. *)

\* where a call stands in its life
Phase(c) ==
    CASE cpc[c] = "idle" -> "NotDispatched"
      [] cpc[c] = "entry" -> "Pending"
      [] cpc[c] = "gate_wait" -> "ReadinessCheck"
      [] cpc[c] \in {"gen_wait", "req_wait"} -> "InFlight"
      [] OTHER -> "Terminal"

Succeeded(c) == cout[c].tag = "Ok" /\ ~SoftFailure(c)
FailedSoft(c) == SoftFailure(c)
FailedHard(c) == cout[c].tag = "Err"

\* exactly one of the three outcomes
OneOutcome(c) ==
    /\ Succeeded(c) \/ FailedSoft(c) \/ FailedHard(c)
    /\ ~(Succeeded(c) /\ FailedSoft(c))
    /\ ~(Succeeded(c) /\ FailedHard(c))
    /\ ~(FailedSoft(c) /\ FailedHard(c))

\* the moves of a call: the readiness check is a stage of the calls served by the
\* local server and of no other; a failed check ends the call at once
PhaseMoves(c) ==
    {<<"NotDispatched", "Pending">>, <<"InFlight", "Terminal">>,
     <<"Terminal", "NotDispatched">>}
      \cup (IF c \in LocalCalls
              THEN {<<"Pending", "ReadinessCheck">>, <<"ReadinessCheck", "InFlight">>,
                    <<"ReadinessCheck", "Terminal">>}
              ELSE {<<"Pending", "InFlight">>})

\* one step of call c
PhaseStep(c) ==
    /\ Phase(c)' # Phase(c) => <<Phase(c), Phase(c)'>> \in PhaseMoves(c)
    /\ Phase(c) = "Terminal" /\ Phase(c)' = "Terminal" => cout'[c] = cout[c]
    /\ Phase(c)' = "Terminal" => OneOutcome(c)'
    /\ Phase(c)' # "Terminal" => cout'[c] = NoOut

\* C27: a dispatched call moves only along Pending, ReadinessCheck (calls served by
\* the local server), InFlight, terminal; at the terminal stage it has exactly one of
\* the outcomes Succeeded, FailedSoft, FailedHard and keeps it until the result has
\* gone to the caller; and every dispatched call reaches the terminal stage
C27_CallLifecycle ==
    /\ [][\A c \in DirectCalls : PhaseStep(c)]_vars
    /\ \A c \in DirectCalls : (Phase(c) = "Pending") ~> (Phase(c) = "Terminal")

\* the three outcomes side by side, each at the terminal stage
C27_Witness ==
    /\ Phase("llava") = "Terminal" /\ FailedHard("llava")
    /\ Phase("moondream") = "Terminal" /\ FailedSoft("moondream")
    /\ Phase("image") = "Terminal" /\ Succeeded("image")

----------------------------------------------------------------------------
(* The success mark of a report entry, checked under SpecDispatch. *)

\* the call of branch b produced a result without an error
ResultWithoutError(b) == cout[b].tag = "Ok" /\ ~SoftFailure(b)

\* C31: in a comparison report an entry is marked success = true exactly when its
\* provider's call produced a result without an error
C31_SuccessIffNoError ==
    report # NoReport =>
        \A b \in AbBranches :
            report.value[ProviderOf(b)].success <=> ResultWithoutError(b)

====
